---- MODULE Spec2Model ----
(***************************************************************************)
(* The OG HTTP gateway (src/gateway.ts): the LRU disk cache, the           *)
(* downloadLocks single-flight map, downloadToTmp, the GET / HEAD handlers *)
(* with their fallback chain, and streamWhileDownloadingToRes.             *)
(*                                                                         *)
(* Node runs the handlers on one event loop: the code between two awaits   *)
(* is one atomic step, and what is awaited (a file-system call, the        *)
(* indexer, a timer, the client) completes in a later step.  An awaited    *)
(* file-system call whose result the code ignores is one step with the     *)
(* code that follows it; a call whose result the code branches on after    *)
(* other requests may have run (fsp.access) is two steps.  A               *)
(* fire-and-forget call (the unlink of dispose) is issued in the step of   *)
(* its caller and takes effect in a later step of its own.                 *)
(*                                                                         *)
(* Sizes are counted in backend segments: the indexer appends one segment  *)
(* to the destination path per write.                                      *)
(***************************************************************************)
EXTENDS Integers, Sequences, FiniteSets, TLC

\* ---- bounds of the model ----
\* request slots: the requests that can be in flight at the same time
NumSlots == 2
\* distinct root hashes requested
NumKeys == 3
\* the clock stops here
MaxTime == 2
\* segments of the largest object (progressive delivery)
MaxSize == 5
\* fire-and-forget unlinks that can be outstanding on one path
MaxPend == 1
\* characters of the longest Range header (the unit "bytes=" counts as one)
MaxHeader == 5
\* characters of the longest rootHash text a request carries
MaxHash == 5
\* bytes of the largest object a Range is evaluated against
MaxTotal == 3
\* the largest number written into a Range header by a client
MaxNum == 12
\* streaming methods the indexer offers to tryDirectStreamFromIndexer
MaxCandidates == 2

\* ---- program constants (configuration read from the environment) ----
\* CACHE_MAX_ENTRIES
CACHE_MAX_ENTRIES == 2
\* CACHE_MAX_AGE_MS, in clock ticks
CACHE_MAX_AGE_MS == 1
\* maxChunk of pumpOnce, in segments
maxChunk == 2
\* rootHash.length === 66: "0x" and the hex digits, here 2 + 2
rootHashLength == 4

Slots == 1..NumSlots
Keys == 1..NumKeys

VARIABLES
  now,            \* the clock (performance.now / Date.now), in ticks
  cache,          \* the LRUCache: entries, least recently used first
  downloadLocks,  \* key -> the slot whose downloadToTmp promise is stored, 0 = none
  tmp,            \* the files TMP_DIR/<key>
  part,           \* the files TMP_DIR/<key>.part
  pend,           \* key -> unlinks of TMP_DIR/<key> issued by dispose, not yet run
  pc,             \* slot -> where its request stands
  key,            \* slot -> the rootHash of its request
  kind,           \* slot -> "GET" (no Range), "RANGE" (GET with Range), "HEAD"
  waitOn,         \* slot -> the slot whose downloadToTmp promise it awaits, 0 = none
  dtRes,          \* slot -> what its downloadToTmp call returned
  status,         \* slot -> the status of its response, 0 = none yet
  failed,         \* slot -> a backend fetch made for the request returned an error
  woff,           \* slot -> segments written by its downloadToTmp fetch
  dl,             \* slot -> the downloadPromise of streamWhileDownloadingToRes
  position,       \* slot -> the read cursor of streamWhileDownloadingToRes
  fd,             \* slot -> the file handle of streamWhileDownloadingToRes
  delivered,      \* slot -> the segments written to the response body
  res,            \* slot -> the response: "open", "closed" (client gone), "ended"
  rootHash,       \* slot -> the text of req.params.rootHash
  rangeHeader,    \* slot -> the text of req.headers.range once the handler read it
  headers,        \* slot -> Content-Range and Content-Length of its response
  pin,            \* an argument list of parseRangeHeader
  pout,           \* what parseRangeHeader returned for it
  direct          \* slot -> the candidate tryDirectStreamFromIndexer is running

cacheVars == <<now, cache, downloadLocks, tmp, pend>>
wireVars == <<rootHash, rangeHeader, headers>>
reqVars == <<pc, key, kind, waitOn, dtRes, status, failed, woff, wireVars>>
parseVars == <<pin, pout>>
progVars == <<part, dl, position, fd, delivered, res>>
vars == <<cacheVars, reqVars, progVars, parseVars, direct>>

\* ---- files ----
NoFile == [ex |-> FALSE, data |-> <<>>, done |-> FALSE]

\* the indexer appends segment off to the file at a path, creating it if absent
FileAppend(f, off) == [ex |-> TRUE, data |-> Append(f.data, off), done |-> FALSE]

\* the segments 0 .. n-1 of an object, in order
Segments(n) == [i \in 1..n |-> i - 1]

Min(a, b) == IF a < b THEN a ELSE b

RemoveAt(q, i) == SubSeq(q, 1, i - 1) \o SubSeq(q, i + 1, Len(q))

\* ---- texts: a text is the sequence of its characters ----
DecDigits == <<"0", "1", "2", "3", "4", "5", "6", "7", "8", "9">>

\* \d
IsDigit(c) == \E i \in 1..10 : DecDigits[i] = c

DigitValue(c) == (CHOOSE i \in 1..10 : DecDigits[i] = c) - 1

AllDigits(t) == \A i \in 1..Len(t) : IsDigit(t[i])

\* [0-9a-fA-F]
IsHex(c) ==
  c \in {"0", "1", "2", "3", "4", "5", "6", "7", "8", "9",
         "a", "b", "c", "d", "e", "f", "A", "B", "C", "D", "E", "F"}

\* NaN, the value of parseInt on a text without a leading digit
NaN == -1

isNaN(v) == v = NaN

RECURSIVE ParseDigits(_, _)
ParseDigits(t, acc) ==
  IF t = <<>> THEN acc ELSE ParseDigits(Tail(t), 10 * acc + DigitValue(Head(t)))

\* parseInt(t, 10) of a text of digits
parseInt(t) == IF t = <<>> \/ ~IsDigit(t[1]) THEN NaN ELSE ParseDigits(t, 0)

RECURSIVE TrimStart(_)
TrimStart(t) == IF t # <<>> /\ Head(t) = " " THEN TrimStart(Tail(t)) ELSE t

RECURSIVE TrimEnd(_)
TrimEnd(t) ==
  IF t # <<>> /\ t[Len(t)] = " " THEN TrimEnd(SubSeq(t, 1, Len(t) - 1)) ELSE t

\* String.prototype.trim
trim(t) == TrimEnd(TrimStart(t))

\* the texts of at most n characters over the alphabet cs
TextsUpTo(cs, n) == UNION {[1..m -> cs] : m \in 0..n}

\* ---- parseRangeHeader ----
\* the characters Range headers are drawn from; "bytes=" stands for the six
\* characters of the unit
HeaderChars == {"bytes=", "-", " ", "0", "1", "2"}

Headers == TextsUpTo(HeaderChars, MaxHeader)

\* the header values a handler can see: Node strips the white space around a
\* header value; the empty text is the absent header
WireHeaders == {h \in Headers : h = <<>> \/ (h[1] # " " /\ h[Len(h)] # " ")}

null == [ok |-> FALSE, start |-> 0, end |-> 0]

Window(a, b) == [ok |-> TRUE, start |-> a, end |-> b]

Max(a, b) == IF a > b THEN a ELSE b

\* /^bytes=(\d*)-(\d*)$/.exec(t): the positions of the "-" that split t into the
\* unit, digits, "-", digits (none, or one)
DashOf(t) ==
  {i \in 2..Len(t) :
     /\ t[1] = "bytes="
     /\ t[i] = "-"
     /\ AllDigits(SubSeq(t, 2, i - 1))
     /\ AllDigits(SubSeq(t, i + 1, Len(t)))}

\* an end that is not clamped to the file
ClampEndNone(end, fileSize) == end

\* Math.min(end, fileSize - 1)
ClampEnd(end, fileSize) == Min(end, fileSize - 1)

\* lines 498-522
parseRangeHeader(h, fileSize) ==
  IF h = <<>> THEN null
  ELSE LET t == trim(h) IN
  IF DashOf(t) = {} THEN null
  ELSE LET i == CHOOSE j \in DashOf(t) : TRUE
           first == SubSeq(t, 2, i - 1)
           last == SubSeq(t, i + 1, Len(t))
       IN
  IF first = <<>> /\ last = <<>> THEN null
  ELSE IF first = <<>>
  THEN LET suffixLen == parseInt(last) IN
       IF isNaN(suffixLen) \/ suffixLen <= 0 THEN null
       ELSE Window(Max(0, fileSize - suffixLen), fileSize - 1)
  ELSE LET start == parseInt(first)
           end == IF last = <<>> THEN fileSize - 1 ELSE parseInt(last)
       IN
       IF isNaN(start) \/ isNaN(end) THEN null
       ELSE IF start > end THEN null
       ELSE IF start < 0 \/ start >= fileSize THEN null
       ELSE Window(start, ClampEnd(end, fileSize))

\* ---- isValidRootHash ----
\* the characters rootHash texts are drawn from
HashChars == {"0", "x", "a", "g"}

HashTexts == TextsUpTo(HashChars, MaxHash)

\* rootHash.startsWith("0x")
StartsWith0x(h) == Len(h) >= 2 /\ h[1] = "0" /\ h[2] = "x"

\* /^0x[0-9a-fA-F]+$/.test(rootHash)
TestHex(h) ==
  /\ Len(h) >= 3
  /\ h[1] = "0" /\ h[2] = "x"
  /\ \A i \in 3..Len(h) : IsHex(h[i])

\* a validator that does not look at the length
isValidRootHashAnyLength(h) == StartsWith0x(h) /\ TestHex(h)

\* lines 49-56 (typeof rootHash === "string" holds of every route parameter)
isValidRootHash(h) ==
  /\ StartsWith0x(h)
  /\ Len(h) = rootHashLength
  /\ TestHex(h)

\* the rootHash of key k: the k-th text of "0x" and hex digits, and the name
\* safeName gives it (lines 58-61) is k
HexPairs == <<<<"0", "0">>, <<"0", "a">>, <<"a", "0">>, <<"a", "a">>>>

HashOf(k) == <<"0", "x">> \o HexPairs[k]

\* ---- the LRUCache (max, ttl, dispose) ----
CacheKeysOf(c) == {c[i].key : i \in DOMAIN c}

CacheKeys == CacheKeysOf(cache)

CacheIdx(c, k) == CHOOSE i \in DOMAIN c : c[i].key = k

\* an entry is stale once its age exceeds the ttl
isStale(e) == now - e.start > CACHE_MAX_AGE_MS

\* a cache built with updateAgeOnGet: a get that hits restarts the entry's age
StartAfterGetRefreshed(e) == now

\* a get that hits leaves the entry's age alone (updateAgeOnGet is off)
StartAfterGet(e) == e.start

\* cache.get(k): a stale entry is deleted and disposed of, a fresh one becomes
\* the most recently used
cacheGet(k) ==
  IF k \notin CacheKeys THEN [r |-> "miss", c |-> cache, d |-> {}]
  ELSE LET i == CacheIdx(cache, k) IN
       IF isStale(cache[i])
       THEN [r |-> "stale", c |-> RemoveAt(cache, i), d |-> {k}]
       ELSE [r |-> "hit",
             c |-> Append(RemoveAt(cache, i), [cache[i] EXCEPT !.start = StartAfterGet(cache[i])]),
             d |-> {}]

\* cache.delete(k)
cacheDelete(k) ==
  IF k \in CacheKeys THEN [c |-> RemoveAt(cache, CacheIdx(cache, k)), d |-> {k}]
  ELSE [c |-> cache, d |-> {}]

\* a cache that evicts its most recently used entry
EvictIndexNewest(c) == Len(c)

\* the entry a full cache evicts: the least recently used
EvictIndex(c) == 1

\* cache.set(k, {path, size, addedAt: Date.now()})
cacheSet(k) ==
  LET e == [key |-> k, start |-> now, addedAt |-> now] IN
  IF k \in CacheKeys
  THEN [c |-> Append(RemoveAt(cache, CacheIdx(cache, k)), e), d |-> {k}]
  ELSE IF Len(cache) >= CACHE_MAX_ENTRIES
  THEN [c |-> Append(RemoveAt(cache, EvictIndex(cache)), e),
        d |-> {cache[EvictIndex(cache)].key}]
  ELSE [c |-> Append(cache, e), d |-> {}]

\* dispose: fsp.unlink(value.path), not awaited
CanDispose(d) == \A k \in d : pend[k] < MaxPend

Disposed(d) == [k \in Keys |-> IF k \in d THEN pend[k] + 1 ELSE pend[k]]

\* the entry of k is in the cache, not stale, and its file is on disk
CachedFresh(k) ==
  /\ k \in CacheKeys
  /\ ~isStale(cache[CacheIdx(cache, k)])
  /\ tmp[k].ex

\* no Content-Range, no Content-Length
NoRange == [unit |-> "none", start |-> 0, end |-> 0, total |-> 0]

NoHeaders == [cr |-> NoRange, cl |-> -1]

NoInput == [h |-> <<>>, fileSize |-> 0]

NoOutput == [done |-> FALSE, range |-> null]

\* no candidate is running
NoCandidate == [c |-> 0, off |-> 0]

\* the gateway after start-up: no request, empty cache, empty downloadLocks
InitGateway ==
  /\ now = 0
  /\ cache = <<>>
  /\ downloadLocks = [k \in Keys |-> 0]
  /\ tmp = [k \in Keys |-> NoFile]
  /\ part = [k \in Keys |-> NoFile]
  /\ pend = [k \in Keys |-> 0]
  /\ pc = [s \in Slots |-> "idle"]
  /\ key = [s \in Slots |-> 1]
  /\ kind = [s \in Slots |-> "HEAD"]
  /\ waitOn = [s \in Slots |-> 0]
  /\ dtRes = [s \in Slots |-> "none"]
  /\ status = [s \in Slots |-> 0]
  /\ failed = [s \in Slots |-> FALSE]
  /\ woff = [s \in Slots |-> 0]
  /\ dl = [s \in Slots |-> [st |-> "none", off |-> 0]]
  /\ position = [s \in Slots |-> 0]
  /\ fd = [s \in Slots |-> [st |-> "none", data |-> <<>>]]
  /\ delivered = [s \in Slots |-> <<>>]
  /\ res = [s \in Slots |-> "open"]
  /\ rootHash = [s \in Slots |-> <<>>]
  /\ rangeHeader = [s \in Slots |-> <<>>]
  /\ headers = [s \in Slots |-> NoHeaders]
  /\ direct = [s \in Slots |-> NoCandidate]

Init ==
  /\ InitGateway
  /\ pin = NoInput
  /\ pout = NoOutput

\* ---- a request arrives ----
\* app.get / app.head with a valid rootHash: a GET without Range goes to
\* tryDirectStreamFromIndexer, which calls indexer.download(rootHash, res) before
\* its first await; a GET with Range and a HEAD go to downloadToTmp.  The free
\* slots are interchangeable: the request takes the lowest
Start(s, k, kd) ==
  /\ pc[s] = "idle"
  /\ \A t \in Slots : t < s => pc[t] # "idle"
  /\ isValidRootHash(HashOf(k))
  /\ pc' = [pc EXCEPT ![s] = IF kd = "GET" THEN "direct" ELSE "dtGet"]
  /\ key' = [key EXCEPT ![s] = k]
  /\ kind' = [kind EXCEPT ![s] = kd]
  /\ rootHash' = [rootHash EXCEPT ![s] = HashOf(k)]
  /\ direct' = [direct EXCEPT ![s] = IF kd = "GET" THEN [c |-> 1, off |-> 0] ELSE NoCandidate]
  /\ UNCHANGED <<cacheVars, waitOn, dtRes, status, failed, woff, progVars,
                 rangeHeader, headers, parseVars>>

\* lines 309 and 346: a HEAD or GET whose rootHash fails isValidRootHash is
\* answered 400 and the handler returns.  hs are the rootHash texts the request
\* may carry
Invalid(s, hs, kd) ==
  /\ pc[s] = "idle"
  /\ \A t \in Slots : t < s => pc[t] # "idle"
  /\ \E h \in hs :
       /\ ~isValidRootHash(h)
       /\ rootHash' = [rootHash EXCEPT ![s] = h]
  /\ pc' = [pc EXCEPT ![s] = "done"]
  /\ kind' = [kind EXCEPT ![s] = kd]
  /\ status' = [status EXCEPT ![s] = 400]
  /\ res' = [res EXCEPT ![s] = "ended"]
  /\ UNCHANGED <<cacheVars, key, waitOn, dtRes, failed, woff, rangeHeader, headers,
                 part, dl, position, fd, delivered, parseVars, direct>>

\* the request is over (response finished or connection gone) and any download
\* streamWhileDownloadingToRes left running has settled: nothing of it remains
Finish(s) ==
  /\ pc[s] = "done"
  /\ dl[s].st # "run"
  /\ pc' = [pc EXCEPT ![s] = "idle"]
  /\ key' = [key EXCEPT ![s] = 1]
  /\ kind' = [kind EXCEPT ![s] = "HEAD"]
  /\ waitOn' = [waitOn EXCEPT ![s] = 0]
  /\ dtRes' = [dtRes EXCEPT ![s] = "none"]
  /\ status' = [status EXCEPT ![s] = 0]
  /\ failed' = [failed EXCEPT ![s] = FALSE]
  /\ woff' = [woff EXCEPT ![s] = 0]
  /\ dl' = [dl EXCEPT ![s] = [st |-> "none", off |-> 0]]
  /\ position' = [position EXCEPT ![s] = 0]
  /\ fd' = [fd EXCEPT ![s] = [st |-> "none", data |-> <<>>]]
  /\ delivered' = [delivered EXCEPT ![s] = <<>>]
  /\ res' = [res EXCEPT ![s] = "open"]
  /\ rootHash' = [rootHash EXCEPT ![s] = <<>>]
  /\ rangeHeader' = [rangeHeader EXCEPT ![s] = <<>>]
  /\ headers' = [headers EXCEPT ![s] = NoHeaders]
  /\ direct' = [direct EXCEPT ![s] = NoCandidate]
  /\ UNCHANGED <<cacheVars, part, parseVars>>

\* res.headersSent: the first write of body bytes sends the headers; from then on
\* res.setHeader throws ERR_HTTP_HEADERS_SENT
headersSent(s) == delivered[s] # <<>>

\* ---- downloadToTmp ----
TaskPcs == {"dtUnlink", "dtDownload", "dtErrUnlink", "dtStat"}

\* a downloadToTmp that never finds a pending promise to join
LockHasNever(k) == FALSE

\* downloadLocks.has(key)
LockHas(k) == downloadLocks[k] # 0

\* a downloadToTmp that starts its fetch without storing the promise
EnterFetchNoLock(s, k) ==
  /\ waitOn' = [waitOn EXCEPT ![s] = s]
  /\ pc' = [pc EXCEPT ![s] = "dtUnlink"]
  /\ UNCHANGED downloadLocks

\* lines 473-488: join the stored promise, or start the fetch and store it; the
\* fetch runs up to its first await (the unlink of tmpFile)
EnterFetch(s, k) ==
  IF LockHas(k)
  THEN /\ waitOn' = [waitOn EXCEPT ![s] = downloadLocks[k]]
       /\ pc' = [pc EXCEPT ![s] = "dtJoin"]
       /\ UNCHANGED downloadLocks
  ELSE /\ waitOn' = [waitOn EXCEPT ![s] = s]
       /\ pc' = [pc EXCEPT ![s] = "dtUnlink"]
       /\ downloadLocks' = [downloadLocks EXCEPT ![k] = s]

\* lines 462-464: cache.get(key)
DtGet(s) ==
  /\ pc[s] = "dtGet"
  /\ LET g == cacheGet(key[s]) IN
     /\ CanDispose(g.d)
     /\ cache' = g.c
     /\ pend' = Disposed(g.d)
     /\ IF g.r = "hit"
        THEN /\ pc' = [pc EXCEPT ![s] = "dtAccess"]
             /\ UNCHANGED <<downloadLocks, waitOn>>
        ELSE EnterFetch(s, key[s])
  /\ UNCHANGED <<now, tmp, key, kind, wireVars, parseVars, direct, dtRes, status, failed, woff, progVars>>

\* lines 465-468: fsp.access(cached.path) settles; on success the path is returned
\* and the handler goes on to fsp.stat
DtAccess(s) ==
  /\ pc[s] = "dtAccess"
  /\ IF tmp[key[s]].ex
     THEN /\ pc' = [pc EXCEPT ![s] = "dStat"]
          /\ dtRes' = [dtRes EXCEPT ![s] = "path"]
     ELSE /\ pc' = [pc EXCEPT ![s] = "dtAccFail"]
          /\ UNCHANGED dtRes
  /\ UNCHANGED <<cacheVars, key, kind, wireVars, parseVars, direct, waitOn, status, failed, woff, progVars>>

\* lines 468-473: the catch branch, cache.delete(key), then the lock check
DtAccFail(s) ==
  /\ pc[s] = "dtAccFail"
  /\ LET g == cacheDelete(key[s]) IN
     /\ CanDispose(g.d)
     /\ cache' = g.c
     /\ pend' = Disposed(g.d)
  /\ EnterFetch(s, key[s])
  /\ UNCHANGED <<now, tmp, key, kind, wireVars, parseVars, direct, dtRes, status, failed, woff, progVars>>

\* lines 475-478: the unlink of tmpFile, then indexer.download is called
TaskUnlink(s) ==
  /\ pc[s] = "dtUnlink"
  /\ tmp' = [tmp EXCEPT ![key[s]] = NoFile]
  /\ pc' = [pc EXCEPT ![s] = "dtDownload"]
  /\ woff' = [woff EXCEPT ![s] = 0]
  /\ UNCHANGED <<now, cache, downloadLocks, pend, key, kind, wireVars, parseVars, direct, waitOn,
                 dtRes, status, failed, progVars>>

\* the indexer appends the next segment to tmpFile
TaskWrite(s, cap) ==
  /\ pc[s] = "dtDownload"
  /\ woff[s] < cap
  /\ tmp' = [tmp EXCEPT ![key[s]] = FileAppend(@, woff[s])]
  /\ woff' = [woff EXCEPT ![s] = @ + 1]
  /\ UNCHANGED <<now, cache, downloadLocks, pend, pc, key, kind, wireVars, parseVars, direct, waitOn,
                 dtRes, status, failed, progVars>>

\* line 478: indexer.download returns null; fsp.stat(tmpFile) is awaited next
TaskDownloadOk(s) ==
  /\ pc[s] = "dtDownload"
  /\ woff[s] >= 1
  /\ tmp' = [tmp EXCEPT ![key[s]].done = tmp[key[s]].ex]
  /\ pc' = [pc EXCEPT ![s] = "dtStat"]
  /\ UNCHANGED <<now, cache, downloadLocks, pend, key, kind, wireVars, parseVars, direct, waitOn,
                 dtRes, status, failed, woff, progVars>>

\* a downloadToTmp that goes on to stat and cache.set whatever the download returned
TaskDownloadErrIgnored(s) ==
  /\ pc[s] = "dtDownload"
  /\ pc' = [pc EXCEPT ![s] = "dtStat"]
  /\ UNCHANGED <<cacheVars, key, kind, wireVars, parseVars, direct, waitOn, dtRes, status, failed,
                 woff, progVars>>

\* lines 478-480: indexer.download returns an error; the unlink is awaited next
TaskDownloadErr(s) ==
  /\ pc[s] = "dtDownload"
  /\ pc' = [pc EXCEPT ![s] = "dtErrUnlink"]
  /\ UNCHANGED <<cacheVars, key, kind, wireVars, parseVars, direct, waitOn, dtRes, status, failed,
                 woff, progVars>>

\* the callers the promise of slot c settles: its creator and those that joined
\* a settlement that reaches the creator of the fetch only
WaitersCreatorOnly(c) == {c}

Waiters(c) == {c} \cup {t \in Slots : pc[t] = "dtJoin" /\ waitOn[t] = c}

\* a downloadToTmp whose finally leaves the settled promise in downloadLocks
SettleKeepLock(c, outcome) ==
  /\ UNCHANGED downloadLocks
  /\ pc' = [t \in Slots |-> IF t \in Waiters(c)
                             THEN (IF outcome = "path" THEN "dStat" ELSE "done")
                             ELSE pc[t]]
  /\ dtRes' = [t \in Slots |-> IF t \in Waiters(c) THEN outcome ELSE dtRes[t]]
  /\ status' = [t \in Slots |-> IF t \in Waiters(c) /\ outcome # "path" /\ ~headersSent(t)
                                 THEN 502 ELSE status[t]]
  /\ failed' = [t \in Slots |-> IF t \in Waiters(c) /\ outcome = "dlerr" THEN TRUE ELSE failed[t]]
  /\ waitOn' = [t \in Slots |-> IF t \in Waiters(c) /\ outcome = "path" THEN 0 ELSE waitOn[t]]
  /\ woff' = [t \in Slots |-> IF t \in Waiters(c) /\ outcome = "path" THEN 0 ELSE woff[t]]
  /\ res' = [t \in Slots |-> IF t \in Waiters(c) /\ outcome # "path" /\ ~headersSent(t)
                              THEN "ended" ELSE res[t]]

\* lines 489-494 and the handlers' catch: the promise settles, the creator's
\* finally deletes the lock, every waiter resumes with the same outcome; a
\* rejection is answered 502 by GET (lines 395-398) and HEAD (lines 331-334).
\* A call that returns a path leaves nothing behind; of a rejected call the
\* promise it awaited and what its fetch wrote stay on record with the response.
\* When the headers of a waiter's response are already sent, send throws and its
\* handler ends with the response as it is
Settle(c, outcome) ==
  /\ downloadLocks' = [downloadLocks EXCEPT ![key[c]] = 0]
  /\ pc' = [t \in Slots |-> IF t \in Waiters(c)
                             THEN (IF outcome = "path" THEN "dStat" ELSE "done")
                             ELSE pc[t]]
  /\ dtRes' = [t \in Slots |-> IF t \in Waiters(c) THEN outcome ELSE dtRes[t]]
  /\ status' = [t \in Slots |-> IF t \in Waiters(c) /\ outcome # "path" /\ ~headersSent(t)
                                 THEN 502 ELSE status[t]]
  /\ failed' = [t \in Slots |-> IF t \in Waiters(c) /\ outcome = "dlerr" THEN TRUE ELSE failed[t]]
  /\ waitOn' = [t \in Slots |-> IF t \in Waiters(c) /\ outcome = "path" THEN 0 ELSE waitOn[t]]
  /\ woff' = [t \in Slots |-> IF t \in Waiters(c) /\ outcome = "path" THEN 0 ELSE woff[t]]
  /\ res' = [t \in Slots |-> IF t \in Waiters(c) /\ outcome # "path" /\ ~headersSent(t)
                              THEN "ended" ELSE res[t]]

\* lines 480-481: the unlink after a failed download, then the throw
TaskErrUnlink(s) ==
  /\ pc[s] = "dtErrUnlink"
  /\ tmp' = [tmp EXCEPT ![key[s]] = NoFile]
  /\ Settle(s, "dlerr")
  /\ UNCHANGED <<now, cache, pend, key, kind, wireVars, parseVars, direct,
                 part, dl, position, fd, delivered>>

\* lines 483-485: fsp.stat(tmpFile) (a missing file rejects the promise), then
\* cache.set and the return of tmpFile
TaskStat(s) ==
  /\ pc[s] = "dtStat"
  /\ IF tmp[key[s]].ex
     THEN LET st == cacheSet(key[s]) IN
          /\ CanDispose(st.d)
          /\ cache' = st.c
          /\ pend' = Disposed(st.d)
          /\ Settle(s, "path")
     ELSE /\ Settle(s, "enoent")
          /\ UNCHANGED <<cache, pend>>
  /\ UNCHANGED <<now, tmp, key, kind, wireVars, parseVars, direct,
                 part, dl, position, fd, delivered>>

\* ---- the disk-backed path of the handlers ----
\* a Content-Range that does not tell the size
UnsatisfiedNoTotal(total) == [unit |-> "star", start |-> 0, end |-> 0, total |-> 0]

\* Content-Range: bytes */total
Unsatisfied(total) == [unit |-> "star", start |-> 0, end |-> 0, total |-> total]

\* Content-Range: bytes start-end/total
ContentRange(a, b, total) == [unit |-> "bytes", start |-> a, end |-> b, total |-> total]

\* a chunkSize that leaves out the last byte of the window
ChunkSizeShort(range) == range.end - range.start

\* line 431: chunkSize
ChunkSize(range) == range.end - range.start + 1

\* GET lines 400-436: fsp.stat(filePath) (500 when it fails), the conditional GET
\* (304 when If-None-Match equals the ETag), the Range check (416), 206 or 200 and
\* createReadStream; HEAD lines 313-334: 200 with Content-Length, 304, or 502.
\* hs are the Range headers the request may carry: the handler reads the header
\* here, after the stat.  A response without a body is ended at once.  When the
\* headers are already sent (a direct candidate wrote body bytes), send (line 404)
\* or setHeader (line 409) throws and the handler ends with the response as it is
DStat(s, hs) ==
  /\ pc[s] = "dStat"
  /\ LET f == tmp[key[s]]
         fileSize == Len(f.data)
     IN
     IF headersSent(s)
     THEN /\ pc' = [pc EXCEPT ![s] = "done"]
          /\ UNCHANGED <<status, rangeHeader, headers>>
     ELSE IF ~f.ex
     THEN /\ status' = [status EXCEPT ![s] = IF kind[s] = "HEAD" THEN 502 ELSE 500]
          /\ pc' = [pc EXCEPT ![s] = "done"]
          /\ UNCHANGED <<rangeHeader, headers>>
     ELSE \E ifNoneMatch \in BOOLEAN :
       IF kind[s] = "HEAD"
       THEN /\ status' = [status EXCEPT ![s] = IF ifNoneMatch THEN 304 ELSE 200]
            /\ headers' = [headers EXCEPT ![s].cl = fileSize]
            /\ pc' = [pc EXCEPT ![s] = "done"]
            /\ UNCHANGED rangeHeader
       ELSE IF ifNoneMatch
       THEN /\ status' = [status EXCEPT ![s] = 304]
            /\ pc' = [pc EXCEPT ![s] = "done"]
            /\ UNCHANGED <<rangeHeader, headers>>
       ELSE IF kind[s] = "GET"
       THEN /\ status' = [status EXCEPT ![s] = 200]
            /\ headers' = [headers EXCEPT ![s].cl = fileSize]
            /\ pc' = [pc EXCEPT ![s] = "dStream"]
            /\ UNCHANGED rangeHeader
       ELSE \E h \in hs \ {<<>>} :
            LET range == parseRangeHeader(h, fileSize) IN
            /\ rangeHeader' = [rangeHeader EXCEPT ![s] = h]
            /\ IF ~range.ok
               THEN /\ status' = [status EXCEPT ![s] = 416]
                    /\ headers' = [headers EXCEPT ![s].cr = Unsatisfied(fileSize)]
                    /\ pc' = [pc EXCEPT ![s] = "done"]
               ELSE /\ status' = [status EXCEPT ![s] = 206]
                    /\ headers' = [headers EXCEPT ![s] =
                         [cr |-> ContentRange(range.start, range.end, fileSize),
                          cl |-> ChunkSize(range)]]
                    /\ pc' = [pc EXCEPT ![s] = "dStream"]
  /\ res' = [res EXCEPT ![s] = IF pc'[s] = "done" /\ ~headersSent(s) THEN "ended" ELSE @]
  /\ UNCHANGED <<cacheVars, key, kind, waitOn, dtRes, failed, woff, rootHash,
                 part, dl, position, fd, delivered, parseVars, direct>>

\* fs.createReadStream(filePath, {start, end}): the bytes start .. end of the
\* file, both inclusive, as far as the file has them; without a window, all
StreamBytes(data, cr) ==
  IF cr.unit = "bytes"
  THEN SubSeq(data, cr.start + 1, Min(cr.end + 1, Len(data)))
  ELSE data

\* lines 437-443 and 451-456: the read stream opens the file and pipes it; a
\* stream error destroys the response
DStream(s) ==
  /\ pc[s] = "dStream"
  /\ IF tmp[key[s]].ex
     THEN /\ delivered' = [delivered EXCEPT ![s] = StreamBytes(tmp[key[s]].data, headers[s].cr)]
          /\ res' = [res EXCEPT ![s] = "ended"]
     ELSE /\ res' = [res EXCEPT ![s] = "closed"]
          /\ UNCHANGED delivered
  /\ pc' = [pc EXCEPT ![s] = "done"]
  /\ UNCHANGED <<cacheVars, key, kind, wireVars, parseVars, direct, waitOn, dtRes, status,
                 failed, woff, part, dl, position, fd>>

\* ---- tryDirectStreamFromIndexer ----
\* lines 129-135: the promise of the candidate called with (rootHash, res)
\* resolves, with null or with an Error value that is not looked at; the
\* response is ended
DirectResolve(s, err) ==
  /\ pc[s] = "direct"
  /\ failed' = [failed EXCEPT ![s] = err]
  /\ status' = [status EXCEPT ![s] = 200]
  /\ res' = [res EXCEPT ![s] = IF @ = "open" THEN "ended" ELSE @]
  /\ pc' = [pc EXCEPT ![s] = "done"]
  /\ direct' = [direct EXCEPT ![s] = NoCandidate]
  /\ UNCHANGED <<cacheVars, key, kind, wireVars, parseVars, waitOn, dtRes, woff,
                 part, dl, position, fd, delivered>>

\* lines 194-200 and 377-380: the call throws or its promise rejects, no other
\* candidate is left, and the handler falls back to streamWhileDownloadingToRes,
\* which runs up to its first await (the unlink of the .part file)
DirectReject(s) ==
  /\ pc[s] = "direct"
  /\ failed' = [failed EXCEPT ![s] = TRUE]
  /\ pc' = [pc EXCEPT ![s] = "pUnlink"]
  /\ direct' = [direct EXCEPT ![s] = NoCandidate]
  /\ UNCHANGED <<cacheVars, key, kind, wireVars, parseVars, waitOn, dtRes, status, woff, progVars>>

\* lines 129 and 150: the candidate being run writes the next segment of the
\* object to res, the writable it was given; the first write sends the headers
DirectWrite(s, cap) ==
  /\ pc[s] = "direct"
  /\ res[s] = "open"
  /\ direct[s].off < cap
  /\ delivered' = [delivered EXCEPT ![s] = Append(@, direct[s].off)]
  /\ direct' = [direct EXCEPT ![s].off = @ + 1]
  /\ status' = [status EXCEPT ![s] = 200]
  /\ UNCHANGED <<cacheVars, pc, key, kind, wireVars, parseVars, waitOn, dtRes, failed, woff,
                 part, dl, position, fd, res>>

\* lines 126 and 194-197: the candidate throws or its promise rejects, and the
\* loop goes on to call the next candidate with the same res
DirectNext(s) ==
  /\ pc[s] = "direct"
  /\ direct[s].c < MaxCandidates
  /\ direct' = [direct EXCEPT ![s] = [c |-> @.c + 1, off |-> 0]]
  /\ failed' = [failed EXCEPT ![s] = TRUE]
  /\ UNCHANGED <<cacheVars, pc, key, kind, wireVars, parseVars, waitOn, dtRes, status, woff,
                 progVars>>

\* ---- streamWhileDownloadingToRes ----
ProgPcs == {"pUnlink", "pOpen", "pCheck", "pFinal", "pDrain1", "pDrain2", "pFin"}

\* downloadCompleted: set by both the then and the catch of downloadPromise
downloadCompleted(s) == dl[s].st \in {"ok", "err"}

\* an unlink of TMP_DIR/<k>.part: handles open on the file keep what it held
UnlinkPart(k, closing) ==
  /\ part' = [part EXCEPT ![k] = NoFile]
  /\ fd' = [t \in Slots |->
       IF t \in closing THEN [st |-> "none", data |-> <<>>]
       ELSE IF fd[t].st = "live" /\ key[t] = k
       THEN [st |-> "orphan", data |-> part[k].data]
       ELSE fd[t]]

\* lines 216-237: the leftover .part file is unlinked, then indexer.download is
\* started without being awaited, then the headers are set.  When the headers
\* are already sent setHeader throws: the function rejects outside its try, and
\* the handler's catch (line 384) goes on to the disk-backed path
ProgUnlink(s) ==
  /\ pc[s] = "pUnlink"
  /\ UnlinkPart(key[s], {})
  /\ dl' = [dl EXCEPT ![s] = [st |-> "run", off |-> 0]]
  /\ pc' = [pc EXCEPT ![s] = IF headersSent(s) THEN "dtGet" ELSE "pOpen"]
  /\ UNCHANGED <<cacheVars, key, kind, wireVars, parseVars, direct, waitOn, dtRes, status, failed,
                 woff, position, delivered, res>>

\* what a handle reads
FdData(s, f) == IF f.st = "live" THEN part[key[s]].data ELSE f.data

\* a pumpOnce that reads from the start of the file whatever the cursor is
PumpChunkFromStart(s, f) ==
  LET data == FdData(s, f) IN
  IF f.st = "none" \/ Len(data) <= position[s] THEN <<>>
  ELSE SubSeq(data, 1, Min(Len(data) - position[s], maxChunk))

\* lines 254-260: the bytes one pumpOnce reads: from position up to the size
\* seen by stat, at most maxChunk
PumpChunk(s, f) ==
  LET data == FdData(s, f) IN
  IF f.st = "none" \/ Len(data) <= position[s] THEN <<>>
  ELSE SubSeq(data, position[s] + 1, position[s] + Min(Len(data) - position[s], maxChunk))

\* a pumpOnce that goes on whatever res.write returned
pumpOnceNoWait(s, f, nextPc, drainPc) ==
  LET chunk == PumpChunk(s, f) IN
  /\ position' = [position EXCEPT ![s] = @ + Len(chunk)]
  /\ pc' = [pc EXCEPT ![s] = nextPc]
  /\ IF chunk # <<>> /\ res[s] = "open"
     THEN delivered' = [delivered EXCEPT ![s] = @ \o chunk]
     ELSE UNCHANGED delivered

\* lines 251-273: pumpOnce on handle f; after a write that returns false the loop
\* waits for 'drain' (a write to a response that is no longer open returns false)
pumpOnce(s, f, nextPc, drainPc) ==
  LET chunk == PumpChunk(s, f) IN
  /\ position' = [position EXCEPT ![s] = @ + Len(chunk)]
  /\ IF chunk = <<>>
     THEN /\ pc' = [pc EXCEPT ![s] = nextPc]
          /\ UNCHANGED delivered
     ELSE IF res[s] = "open"
     THEN /\ delivered' = [delivered EXCEPT ![s] = @ \o chunk]
          /\ \E ok \in BOOLEAN : pc' = [pc EXCEPT ![s] = IF ok THEN nextPc ELSE drainPc]
     ELSE /\ pc' = [pc EXCEPT ![s] = drainPc]
          /\ UNCHANGED delivered

\* lines 240-248: ensureFd opens the .part file once it exists
ensureFd(s) ==
  IF fd[s].st = "none" /\ part[key[s]].ex THEN [st |-> "live", data |-> <<>>] ELSE fd[s]

\* lines 278-279: one turn of the poll loop: ensureFd, then pumpOnce
ProgPump(s) ==
  /\ pc[s] = "pOpen"
  /\ fd' = [fd EXCEPT ![s] = ensureFd(s)]
  /\ pumpOnce(s, ensureFd(s), "pCheck", "pDrain1")
  /\ UNCHANGED <<cacheVars, key, kind, wireVars, parseVars, direct, waitOn, dtRes, status, failed,
                 woff, part, dl, res>>

\* lines 281-294: after pumpOnce: the download completed (go to the final read),
\* or the client is gone (break), or sleep 150 ms and loop
ProgCheck(s) ==
  /\ pc[s] = "pCheck"
  /\ pc' = [pc EXCEPT ![s] =
       IF downloadCompleted(s) THEN "pFinal"
       ELSE IF res[s] # "open" THEN "pFin"
       ELSE "pOpen"]
  /\ UNCHANGED <<cacheVars, key, kind, wireVars, parseVars, direct, waitOn, dtRes, status, failed,
                 woff, progVars>>

\* lines 282-287: the final read: one more pumpOnce if a handle is open, then break
ProgFinal(s) ==
  /\ pc[s] = "pFinal"
  /\ pumpOnce(s, fd[s], "pFin", "pDrain2")
  /\ UNCHANGED <<cacheVars, key, kind, wireVars, parseVars, direct, waitOn, dtRes, status, failed,
                 woff, part, dl, fd, res>>

\* lines 298-303 and 381: finally: close the handle, unlink the .part file, end
\* the response; the handler returns.  A download still running goes on by itself
ProgFinally(s) ==
  /\ pc[s] = "pFin"
  /\ UnlinkPart(key[s], {s})
  /\ res' = [res EXCEPT ![s] = IF @ = "open" THEN "ended" ELSE @]
  /\ status' = [status EXCEPT ![s] = IF res[s] = "open" THEN 200 ELSE @]
  /\ pc' = [pc EXCEPT ![s] = "done"]
  /\ UNCHANGED <<cacheVars, key, kind, wireVars, parseVars, direct, waitOn, dtRes, failed,
                 woff, dl, position, delivered>>

\* the response emits 'drain'
ClientDrain(s) ==
  /\ pc[s] \in {"pDrain1", "pDrain2"}
  /\ res[s] = "open"
  /\ pc' = [pc EXCEPT ![s] = IF @ = "pDrain1" THEN "pCheck" ELSE "pFin"]
  /\ UNCHANGED <<cacheVars, key, kind, wireVars, parseVars, direct, waitOn, dtRes, status, failed,
                 woff, progVars>>

\* the client disconnects during progressive delivery
ClientClose(s) ==
  /\ pc[s] \in ProgPcs
  /\ res[s] = "open"
  /\ res' = [res EXCEPT ![s] = "closed"]
  /\ UNCHANGED <<cacheVars, reqVars, parseVars, direct, part, dl, position, fd, delivered>>

\* line 221: the indexer appends the next segment to the .part file
DlWrite(s, cap) ==
  /\ dl[s].st = "run"
  /\ dl[s].off < cap
  /\ part' = [part EXCEPT ![key[s]] = FileAppend(@, dl[s].off)]
  /\ dl' = [dl EXCEPT ![s].off = @ + 1]
  /\ UNCHANGED <<cacheVars, reqVars, parseVars, direct, position, fd, delivered, res>>

\* lines 221-223 and 232: downloadPromise settles, downloadCompleted becomes true
DlSettle(s, err) ==
  /\ dl[s].st = "run"
  /\ err \/ dl[s].off >= 1
  /\ dl' = [dl EXCEPT ![s].st = IF err THEN "err" ELSE "ok"]
  /\ failed' = [failed EXCEPT ![s] = @ \/ err]
  /\ UNCHANGED <<cacheVars, pc, key, kind, wireVars, parseVars, direct, waitOn, dtRes, status,
                 woff, part, position, fd, delivered, res>>

\* ---- the environment ----
\* an unlink issued by dispose runs
RunUnlink(k) ==
  /\ pend[k] > 0
  /\ pend' = [pend EXCEPT ![k] = @ - 1]
  /\ tmp' = [tmp EXCEPT ![k] = NoFile]
  /\ UNCHANGED <<now, cache, downloadLocks, reqVars, parseVars, direct, progVars>>

\* time passes
Tick ==
  /\ now < MaxTime
  /\ now' = now + 1
  /\ UNCHANGED <<cache, downloadLocks, tmp, pend, reqVars, parseVars, direct, progVars>>

\* ---- parseRangeHeader applied to an argument list ----
Parse ==
  /\ ~pout.done
  /\ pout' = [done |-> TRUE, range |-> parseRangeHeader(pin.h, pin.fileSize)]
  /\ UNCHANGED <<cacheVars, reqVars, progVars, pin, direct>>

\* the Range headers of the requests when the object has one segment: one that
\* can be satisfied, one that cannot
FewHeaders == {<<"bytes=", "0", "-">>, <<"bytes=", "2", "-">>}

\* the steps of downloadToTmp and of the disk-backed path of the handlers
DiskStep(s) ==
  \/ Finish(s)
  \/ DtGet(s)
  \/ DtAccess(s)
  \/ DtAccFail(s)
  \/ TaskUnlink(s)
  \/ TaskWrite(s, 1)
  \/ TaskDownloadOk(s)
  \/ TaskDownloadErr(s)
  \/ TaskErrUnlink(s)
  \/ TaskStat(s)
  \/ DStat(s, FewHeaders)
  \/ DStream(s)

\* the steps of tryDirectStreamFromIndexer and streamWhileDownloadingToRes
StreamStep(s, cap) ==
  \/ \E err \in BOOLEAN : DirectResolve(s, err)
  \/ DirectReject(s)
  \/ ProgUnlink(s)
  \/ ProgPump(s)
  \/ ProgCheck(s)
  \/ ProgFinal(s)
  \/ ProgFinally(s)
  \/ ClientDrain(s)
  \/ ClientClose(s)
  \/ DlWrite(s, cap)
  \/ \E err \in BOOLEAN : DlSettle(s, err)

\* the gateway under concurrent requests of every kind for one root hash, with
\* objects of one segment.  Requests for different root hashes share no lock and
\* no file: they meet only in the cache at capacity, which is SpecLru
Next ==
  \/ \E s \in Slots, kd \in {"GET", "RANGE", "HEAD"} : Start(s, 1, kd)
  \/ \E s \in Slots : Invalid(s, {<<"0", "x", "g", "0">>}, "GET")
  \/ \E s \in Slots : DiskStep(s)
  \/ \E s \in Slots : StreamStep(s, 1)
  \/ RunUnlink(1)
  \/ Tick

Spec == Init /\ [][Next]_vars

\* downloadToTmp and the cache over time: concurrent Range and HEAD requests for
\* one root hash while its entry grows old
NextFetch ==
  \/ \E s \in Slots, kd \in {"RANGE", "HEAD"} : Start(s, 1, kd)
  \/ \E s \in Slots : DiskStep(s)
  \/ RunUnlink(1)
  \/ Tick

SpecFetch == Init /\ [][NextFetch]_vars

\* the cache at capacity: a sequence of Range requests for more root hashes than
\* it holds
NextLru ==
  \/ \E k \in Keys : Start(1, k, "RANGE")
  \/ DiskStep(1)
  \/ \E k \in Keys : RunUnlink(k)

SpecLru == Init /\ [][NextLru]_vars

\* progressive delivery of one object of up to MaxSize segments to one client
NextProg ==
  \/ Start(1, 1, "GET")
  \/ Finish(1)
  \/ StreamStep(1, MaxSize)

SpecProg == Init /\ [][NextProg]_vars

\* the steps streamWhileDownloadingToRes takes by itself: each runs once the
\* await before it has settled (a file operation, or the 150 ms timer)
LoopStep(s) ==
  \/ ProgUnlink(s)
  \/ ProgPump(s)
  \/ ProgCheck(s)
  \/ ProgFinal(s)
  \/ ProgFinally(s)

\* progressive delivery in which the event loop keeps running the delivery loop
\* and every indexer.download eventually returns
SpecProgFair ==
  /\ Init
  /\ [][NextProg]_vars
  /\ WF_vars(LoopStep(1))
  /\ WF_vars(\E err \in BOOLEAN : DlSettle(1, err))

\* what the event loop runs for request s without waiting on the network or the
\* client: a callback whose file operation or timer has settled
HandlerStep(s) ==
  \/ DtGet(s)
  \/ DtAccess(s)
  \/ DtAccFail(s)
  \/ TaskUnlink(s)
  \/ TaskErrUnlink(s)
  \/ TaskStat(s)
  \/ DStat(s, FewHeaders)
  \/ DStream(s)
  \/ LoopStep(s)

\* an indexer call of request s coming back, with a result or with an error
FetchReturns(s) ==
  \/ TaskDownloadOk(s)
  \/ TaskDownloadErr(s)
  \/ \E err \in BOOLEAN : DlSettle(s, err)
  \/ \E err \in BOOLEAN : DirectResolve(s, err)
  \/ DirectReject(s)

\* concurrent GET and Range requests for one root hash whose cache entry stays
\* fresh, in which the event loop keeps running, every indexer call eventually
\* returns and a connected client eventually takes what is buffered for it
NextLive ==
  \/ \E s \in Slots, kd \in {"GET", "RANGE"} : Start(s, 1, kd)
  \/ \E s \in Slots : Finish(s)
  \/ \E s \in Slots : DtGet(s)
  \/ \E s \in Slots : DtAccess(s)
  \/ \E s \in Slots : TaskUnlink(s)
  \/ \E s \in Slots : TaskWrite(s, 1)
  \/ \E s \in Slots : TaskDownloadOk(s)
  \/ \E s \in Slots : TaskDownloadErr(s)
  \/ \E s \in Slots : TaskErrUnlink(s)
  \/ \E s \in Slots : TaskStat(s)
  \/ \E s \in Slots : DStat(s, FewHeaders)
  \/ \E s \in Slots : DStream(s)
  \/ \E s \in Slots : StreamStep(s, 1)

SpecLive ==
  /\ Init
  /\ [][NextLive]_vars
  /\ \A s \in Slots : WF_vars(HandlerStep(s))
  /\ \A s \in Slots : WF_vars(FetchReturns(s))
  /\ \A s \in Slots : WF_vars(ClientDrain(s))

\* one request at a time, of every kind, with every rootHash text and every Range
\* header, for an object of up to MaxTotal bytes that stays cached
NextOne ==
  \/ \E kd \in {"GET", "RANGE", "HEAD"} : Start(1, 1, kd)
  \/ \E kd \in {"GET", "HEAD"} : Invalid(1, HashTexts, kd)
  \/ Finish(1)
  \/ DtGet(1)
  \/ DtAccess(1)
  \/ TaskUnlink(1)
  \/ TaskWrite(1, MaxTotal)
  \/ TaskDownloadOk(1)
  \/ TaskDownloadErr(1)
  \/ TaskErrUnlink(1)
  \/ TaskStat(1)
  \/ DStat(1, WireHeaders)
  \/ DStream(1)
  \/ StreamStep(1, 1)

SpecOne == Init /\ [][NextOne]_vars

\* the fallback chain of one GET at a time: an indexer whose streaming methods
\* write to the response before they fail, objects of up to ChainSize segments,
\* and Range requests that fill the cache in between
ChainSize == 2

NextChain ==
  \/ \E kd \in {"GET", "RANGE"} : Start(1, 1, kd)
  \/ DiskStep(1)
  \/ DirectWrite(1, ChainSize)
  \/ DirectNext(1)
  \/ StreamStep(1, ChainSize)
  \/ RunUnlink(1)
  \/ Tick

SpecChain == Init /\ [][NextChain]_vars

\* parseRangeHeader on every header text and every file size from 0
InitParse ==
  /\ InitGateway
  /\ pin \in [h : Headers, fileSize : 0..MaxTotal]
  /\ pout = NoOutput

NextParse == Parse

SpecParse == InitParse /\ [][NextParse]_vars

\* ---------------------------------------------------------------------------
\* Properties
\* ---------------------------------------------------------------------------

\* request s has a call of indexer.download outstanding: the direct candidate
\* (line 135), the progressive download (line 221) or downloadToTmp's (line 478)
Invoking(s) == pc[s] \in {"direct", "dtDownload"} \/ dl[s].st = "run"

\* the requests with a backend call for root hash k outstanding
InFlight(k) == {s \in Slots : key[s] = k /\ Invoking(s)}

\* C1: while no cache entry for a root hash exists, the concurrent requests for
\* it have at most one backend download outstanding between them
C1_SingleInvocation ==
  \A k \in Keys : k \notin CacheKeys => Cardinality(InFlight(k)) <= 1

\* C2: a GET that arrives while a valid cache entry for its root hash exists
\* starts no backend download
C2_CachedGetNoFetch ==
  [][\A s \in Slots :
       (pc[s] = "idle" /\ pc'[s] # "idle" /\ kind'[s] = "GET" /\ CachedFresh(key'[s]))
         => ~(Invoking(s))']_vars

\* request s is inside downloadToTmp waiting for a fetch to settle: it runs the
\* fetch it created, or awaits the promise it found in downloadLocks
DtWaiting(s) == pc[s] \in TaskPcs \cup {"dtJoin"}

\* C3: when the fetch one caller of downloadToTmp waits for settles, every other
\* caller waiting for that root hash is settled by the same step with the same
\* outcome: the same path, or the same error
C3_SameOutcome ==
  [][\A s1, s2 \in Slots :
       (DtWaiting(s1) /\ DtWaiting(s2) /\ key[s1] = key[s2] /\ ~(DtWaiting(s1))')
         => /\ ~(DtWaiting(s2))'
            /\ dtRes'[s1] # "none"
            /\ dtRes'[s2] = dtRes'[s1]]_vars

\* two requests answered from one failed fetch: one created it, the other joined
C3_Witness ==
  \E s1, s2 \in Slots :
    /\ s1 # s2
    /\ waitOn[s1] = s2 /\ waitOn[s2] = s2
    /\ pc[s1] = "done" /\ pc[s2] = "done"
    /\ dtRes[s1] = "dlerr" /\ dtRes[s2] = "dlerr"

\* C4: a request whose backend download returned an error starts no further
\* download and is answered 502
C4_FailedFetch502 ==
  \A s \in Slots :
    failed[s] => /\ ~Invoking(s)
                 /\ pc[s] = "done" => status[s] = 502

C6_EntryHasCompleteFile ==
  \A k \in Keys : k \in CacheKeys => tmp[k].ex /\ tmp[k].done

\* request s holds the path downloadToTmp returned and has yet to read the file
\* (fsp.stat, then fs.createReadStream)
Reading(s) == kind[s] = "RANGE" /\ pc[s] \in {"dStat", "dStream"}

\* C7: the file at a path returned to a request stays on disk while that request
\* reads it
C7_NoDeleteWhileRead ==
  \A s \in Slots : Reading(s) => tmp[key[s]].ex

\* the step inserts an entry for a new root hash into a full cache
InsertIntoFull == Len(cache) = CACHE_MAX_ENTRIES /\ CacheKeys' \ CacheKeys # {}

GetHit(s) == pc[s] = "dtGet" /\ pc'[s] = "dtAccess"

\* C9 as stated: no lookup returns an entry at or after its insertion time plus
\* the ttl
C9_NotReturnedAtTtl ==
  [][\A s \in Slots :
       GetHit(s) => now - cache[CacheIdx(cache, key[s])].addedAt < CACHE_MAX_AGE_MS]_vars

\* C9: no lookup returns an entry later than its insertion time plus the ttl,
\* whatever the lookups that hit it before
C9_NotReturnedAfterTtl ==
  [][\A s \in Slots :
       GetHit(s) => now - cache[CacheIdx(cache, key[s])].addedAt <= CACHE_MAX_AGE_MS]_vars

\* a lookup found the entry too old and purged it: the entry is gone, the unlink
\* of its file is pending, and the request has gone on to fetch again
C9_Witness ==
  \E s \in Slots :
    /\ pc[s] = "dtUnlink"
    /\ now > CACHE_MAX_AGE_MS
    /\ key[s] \notin CacheKeys
    /\ pend[key[s]] = 1
    /\ tmp[key[s]].ex /\ tmp[key[s]].done

\* C10: a progressive delivery that ran to the end of a successful download
\* with the client connected has written every byte of the object, in order
C10_DeliversAll ==
  \A s \in Slots :
    (kind[s] = "GET" /\ pc[s] = "done" /\ dl[s].st = "ok" /\ res[s] = "ended")
      => delivered[s] = Segments(dl[s].off)

\* C11: when the client of a progressive delivery has disconnected and the
\* backend download made for it has completed, the object is in the cache
C11_DisconnectStillCaches ==
  \A s \in Slots :
    (kind[s] = "GET" /\ pc[s] = "done" /\ res[s] = "closed" /\ dl[s].st = "ok")
      => key[s] \in CacheKeys

\* the decimal text of a number, as a client writes it into a Range header
RECURSIVE Dec(_)
Dec(n) == IF n < 10 THEN <<DecDigits[n + 1]>> ELSE Dec(n \div 10) \o <<DecDigits[(n % 10) + 1]>>

\* bytes=a-b
RangeText(a, b) == <<"bytes=">> \o Dec(a) \o <<"-">> \o Dec(b)

\* bytes=a-
OpenText(a) == <<"bytes=">> \o Dec(a) \o <<"-">>

\* bytes=-n
SuffixText(n) == <<"bytes=", "-">> \o Dec(n)

\* C12: for a total size S > 0, parseRangeHeader returns for bytes=a-b with
\* a <= b and a < S the window (a, min(b, S-1)), for bytes=a- with a < S the
\* window (a, S-1), and for bytes=-n with n > 0 the window (max(0, S-n), S-1)
C12_Windows ==
  (pout.done /\ pin.fileSize > 0) =>
    \A a, b \in 0..MaxNum :
      LET S == pin.fileSize IN
      /\ (pin.h = RangeText(a, b) /\ a <= b /\ a < S)
           => pout.range = Window(a, Min(b, S - 1))
      /\ (pin.h = OpenText(a) /\ a < S)
           => pout.range = Window(a, S - 1)
      /\ (pin.h = SuffixText(a) /\ a > 0)
           => pout.range = Window(Max(0, S - a), S - 1)

\* bytes=1-12 on three bytes: the end is clamped to the last byte
C12_Witness ==
  /\ pout.done
  /\ pin.h = RangeText(1, 12) /\ pin.fileSize = 3
  /\ pout.range = Window(1, 2)

\* the digits Range headers are written with
HeaderDigits == {c \in HeaderChars : IsDigit(c)}

RECURSIVE Pow10(_)
Pow10(n) == IF n = 0 THEN 1 ELSE 10 * Pow10(n - 1)

\* the texts of (\d*): no digits (value none, -1), or the decimal text of a
\* number after any count of leading zeros
NumTexts ==
  {[t |-> <<>>, v |-> -1]} \cup
  {nt \in {[t |-> [i \in 1..z |-> "0"] \o Dec(n), v |-> n] :
             z \in 0..MaxHeader, n \in 0..Pow10(MaxHeader - 2) - 1} :
     /\ Len(nt.t) <= MaxHeader - 2
     /\ \A i \in 1..Len(nt.t) : nt.t[i] \in HeaderDigits}

\* the Range headers bytes=first-last with at least one of the two numbers
RangeForms ==
  {f \in {[h |-> <<"bytes=">> \o F.t \o <<"-">> \o L.t, first |-> F.v, last |-> L.v] :
            F \in NumTexts, L \in NumTexts} :
     Len(f.h) <= MaxHeader /\ (f.first >= 0 \/ f.last >= 0)}

\* the texts of the form bytes=first-last
RangeTexts == {f.h : f \in RangeForms}

\* of these, for an object of S bytes, the ones with first > last, or
\* first >= S, or a suffix of length <= 0
BadRangeTexts ==
  [S \in 0..MaxTotal |->
     {f.h : f \in {g \in RangeForms :
                     \/ g.first >= 0 /\ g.last >= 0 /\ g.first > g.last
                     \/ g.first >= 0 /\ g.first >= S
                     \/ g.first < 0 /\ g.last <= 0}}]

\* the Range header h is to be rejected for an object of S bytes: it is not of
\* the form bytes=first-last, or it is one of the bad ones
RangeRejected(h, S) == h \notin RangeTexts \/ h \in BadRangeTexts[S]

\* the step in which the GET handler of request s evaluates its Range header
RangeStep(s) == pc[s] = "dStat" /\ pc'[s] # "dStat" /\ rangeHeader'[s] # <<>>

\* C13: the GET handler answers a Range header 416 with Content-Range
\* bytes */total and no body exactly when the header is syntactically invalid, or
\* start > end, or start >= total, or the suffix length is <= 0, and 206
\* otherwise; a GET without Range is never answered 416
C13_Rejects ==
  [][\A s \in Slots :
       /\ RangeStep(s) =>
            LET S == Len(tmp[key[s]].data) IN
            IF RangeRejected(rangeHeader'[s], S)
            THEN /\ status'[s] = 416
                 /\ headers'[s].cr.unit = "star" /\ headers'[s].cr.total = S
                 /\ headers'[s].cl = -1
                 /\ delivered'[s] = <<>>
                 /\ pc'[s] = "done" /\ res'[s] = "ended"
            ELSE status'[s] = 206
       /\ (kind'[s] = "GET" /\ pc'[s] # "idle")
            => status'[s] # 416 /\ rangeHeader'[s] = <<>>]_vars

\* bytes=2-1 on an object of three bytes: 416, bytes */3, no body
C13_Witness ==
  \E s \in Slots :
    /\ pc[s] = "done" /\ status[s] = 416
    /\ rangeHeader[s] = RangeText(2, 1)
    /\ headers[s].cr.unit = "star" /\ headers[s].cr.total = 3
    /\ delivered[s] = <<>>

\* C14: every window parseRangeHeader returns, for every header text and every
\* total size from 0, satisfies 0 <= start <= end < total size
C14_WindowInBounds ==
  (pout.done /\ pout.range.ok) =>
    /\ 0 <= pout.range.start
    /\ pout.range.start <= pout.range.end
    /\ pout.range.end < pin.fileSize

\* C15: the body of every 206 response is exactly the bytes start .. end of the
\* cached object, each byte at its offset, and Content-Length is end-start+1; so
\* the bodies of windows that tile [0, S) concatenate to the object
C15_BodyIsWindow ==
  \A s \in Slots :
    (pc[s] = "done" /\ status[s] = 206 /\ res[s] = "ended") =>
      LET cr == headers[s].cr IN
      /\ cr.unit = "bytes"
      /\ cr.total = Len(tmp[key[s]].data)
      /\ 0 <= cr.start /\ cr.start <= cr.end /\ cr.end < cr.total
      /\ Len(delivered[s]) = cr.end - cr.start + 1
      /\ \A i \in 1..Len(delivered[s]) : delivered[s][i] = Segments(cr.total)[cr.start + i]
      /\ headers[s].cl = Len(delivered[s])

\* bytes=-2 on an object of three bytes: the body is its last two bytes
C15_Witness ==
  \E s \in Slots :
    /\ pc[s] = "done" /\ status[s] = 206 /\ res[s] = "ended"
    /\ rangeHeader[s] = SuffixText(2)
    /\ headers[s].cr.total = 3
    /\ delivered[s] = <<1, 2>>

\* the texts that match ^0x[0-9a-fA-F]{64}$, at the length of the model: "0x" and
\* then hex digits up to rootHashLength characters
MatchingHashes ==
  {<<"0", "x">> \o d : d \in [1..rootHashLength - 2 -> HashChars \ {"x", "g"}]}

\* the texts the validator accepts
AcceptedHashes == {h \in HashTexts : isValidRootHash(h)}

\* the step in which the request of slot s arrives
Arrival(s) == pc[s] = "idle" /\ pc'[s] # "idle"

\* C16: a GET or HEAD whose rootHash does not match is answered 400 by a step
\* that leaves the cache, the lock map and the scratch files alone and starts no
\* backend download; one whose rootHash matches is not answered 400; and the
\* validator accepts exactly the matching texts
C16_InvalidKeyFrame ==
  [][\A s \in Slots :
       Arrival(s) =>
         /\ IF rootHash'[s] \in MatchingHashes
            THEN status'[s] # 400 /\ pc'[s] \in {"direct", "dtGet"}
            ELSE /\ status'[s] = 400 /\ pc'[s] = "done" /\ res'[s] = "ended"
                 /\ UNCHANGED <<cache, downloadLocks, tmp, part, pend>>
                 /\ \A t \in Slots : ~(Invoking(t))' /\ dl'[t] = dl[t]
         /\ AcceptedHashes = MatchingHashes]_vars

\* a rootHash of the right length with a character that is no hex digit: 400
C16_Witness ==
  \E s \in Slots :
    /\ pc[s] = "done" /\ status[s] = 400
    /\ rootHash[s] = <<"0", "x", "a", "g">>
    /\ 1 \in CacheKeys /\ tmp[1].ex

\* the requests whose downloadToTmp call created a fetch that has not settled
FetchTasks(k) == {s \in Slots : key[s] = k /\ pc[s] \in TaskPcs}

\* C17: for every root hash at most one fetch created by downloadToTmp is
\* unsettled, and downloadLocks holds the promise of exactly that fetch: a key
\* with a fetch is locked by it, and a locked key has its fetch running
C17_OneFetchPerKey ==
  \A k \in Keys :
    /\ Cardinality(FetchTasks(k)) <= 1
    /\ \A s \in FetchTasks(k) : downloadLocks[k] = s
    /\ downloadLocks[k] # 0 => downloadLocks[k] \in FetchTasks(k)
    /\ \A s \in Slots : (key[s] = k /\ pc[s] = "dtJoin") => waitOn[s] \in FetchTasks(k)

\* one request runs the fetch and the other has joined its promise
C17_Witness ==
  \E s1, s2 \in Slots :
    /\ s1 # s2 /\ key[s1] = key[s2]
    /\ pc[s1] = "dtDownload" /\ woff[s1] >= 1
    /\ pc[s2] = "dtJoin" /\ waitOn[s2] = s1
    /\ downloadLocks[key[s1]] = s1

\* the steps of one fetch task: unlink, one call of indexer.download, then the
\* unlink and throw, or the stat and cache.set
TaskOrder ==
  {<<"dtUnlink", "dtDownload">>, <<"dtDownload", "dtErrUnlink">>, <<"dtDownload", "dtStat">>,
   <<"dtErrUnlink", "done">>, <<"dtStat", "dStat">>, <<"dtStat", "done">>}

\* C18: a fetch task calls indexer.download once (it enters the call only from
\* its first step and never returns to it), the step that settles it removes its
\* root hash from downloadLocks, and a caller never joins a settled fetch: it
\* joins a running one or starts its own
C18_OnceThenReleased ==
  [][\A s \in Slots :
       /\ (pc[s] \in TaskPcs /\ pc'[s] # pc[s]) => <<pc[s], pc'[s]>> \in TaskOrder
       /\ (pc[s] # "dtDownload" /\ pc'[s] = "dtDownload") => pc[s] = "dtUnlink"
       /\ (pc[s] \in TaskPcs /\ pc'[s] \notin TaskPcs)
            => downloadLocks'[key[s]] = 0 /\ dtRes'[s] # "none"
       /\ (pc[s] \in {"dtGet", "dtAccFail"} /\ pc'[s] # pc[s])
            => \/ pc'[s] = "dtAccess"
               \/ pc'[s] = "dtUnlink" /\ downloadLocks'[key[s]] = s
               \/ pc'[s] = "dtJoin" /\ pc[waitOn'[s]] \in TaskPcs]_vars

\* a request was answered from a failed fetch, and a later call for the same
\* root hash runs a fetch of its own
C18_Witness ==
  \E s1, s2 \in Slots :
    /\ s1 # s2 /\ key[s1] = key[s2]
    /\ pc[s1] = "done" /\ dtRes[s1] = "dlerr" /\ status[s1] = 502
    /\ pc[s2] = "dtDownload" /\ downloadLocks[key[s2]] = s2

\* C19: in progressive delivery, once the download has reported failure no
\* further bytes of the .part file are read and written to the client
C19_NoBytesAfterFailure ==
  [][\A s \in Slots :
       dl[s].st = "err" =>
         /\ Len(delivered'[s]) <= Len(delivered[s])
         /\ position'[s] <= position[s]]_vars

\* C20: in progressive delivery a response whose download failed is not
\* finished as a normal, complete response
C20_FailureAbortsResponse ==
  \A s \in Slots :
    (pc[s] = "done" /\ dl[s].st = "err") => ~(res[s] = "ended" /\ status[s] = 200)

\* C21: a GET whose progressive delivery failed (its download returned an error)
\* does not end before the handler has fallen back to downloadToTmp
C21_FailureFallsBack ==
  \A s \in Slots :
    (kind[s] = "GET" /\ pc[s] = "done" /\ dl[s].st = "err") => dtRes[s] # "none"

\* where a request stands on the disk-backed path: inside downloadToTmp or
\* serving the cached file
DiskPcs == TaskPcs \cup {"dtGet", "dtAccess", "dtAccFail", "dtJoin", "dStat", "dStream"}

\* C22: within one GET the strategies run one after the other: while the request
\* is in a later strategy no earlier one is active, so the download started by
\* progressive delivery is not running while the request is on the disk path
C22_OneStrategyAtATime ==
  \A s \in Slots :
    /\ pc[s] \in DiskPcs => dl[s].st # "run"
    /\ pc[s] \in ProgPcs \cup DiskPcs => direct[s] = NoCandidate

\* C23: the body bytes delivered to one GET response are the object's segments in
\* ascending order from 0 without gap or duplicate
C23_AscendingNoDuplicates ==
  \A s \in Slots :
    kind[s] = "GET" => \A i \in 1..Len(delivered[s]) : delivered[s][i] = i - 1

\* C24: after the client has disconnected during progressive delivery, the
\* delivery loop eventually exits and its file handle is closed
C24_DisconnectExits ==
  \A s \in Slots :
    (res[s] = "closed" /\ pc[s] \in ProgPcs) ~> (pc[s] \notin ProgPcs /\ fd[s].st = "none")

\* what the handle of delivery s holds: the size fd.stat() reports is its length
HandleData(s) == IF fd[s].st = "none" THEN <<>> ELSE FdData(s, fd[s])

\* C25: in progressive delivery the read cursor never decreases and never
\* exceeds the size of the file behind the handle; a read covers the bytes from
\* the cursor on, the cursor advances by the number of bytes read, and those are
\* the bytes written to the response
C25_CursorWithinFile ==
  [][\A s \in Slots :
       (pc[s] \in ProgPcs /\ pc'[s] \in ProgPcs) =>
         /\ position'[s] >= position[s]
         /\ position'[s] <= Len(HandleData(s)')
         /\ position'[s] - position[s] <= maxChunk
         /\ IF res[s] = "open"
            THEN delivered'[s] =
                   delivered[s] \o SubSeq(HandleData(s)', position[s] + 1, position'[s])
            ELSE delivered'[s] = delivered[s]]_vars

\* two reads of maxChunk segments each have been delivered and the file holds more
C25_Witness ==
  \E s \in Slots :
    /\ pc[s] \in ProgPcs
    /\ position[s] = 2 * maxChunk
    /\ delivered[s] = Segments(2 * maxChunk)
    /\ Len(HandleData(s)) > position[s]

\* the delivery loop is inside pumpOnce, waiting for the 'drain' event
DrainPcs == {"pDrain1", "pDrain2"}

\* C26: a write that could not be accepted puts the delivery into the wait for
\* 'drain'; while it waits nothing is read and nothing is written for that
\* client, and it goes on only when the response drains
C26_WaitsForDrain ==
  [][\A s \in Slots :
       /\ (pc[s] \in ProgPcs /\ res[s] # "open" /\ position'[s] > position[s])
            => pc'[s] \in DrainPcs
       /\ pc[s] \in DrainPcs
            => /\ position'[s] = position[s]
               /\ delivered'[s] = delivered[s]
               /\ fd'[s] = fd[s] \/ fd'[s].st = "orphan"
               /\ pc'[s] # pc[s] => res[s] = "open" /\ pc'[s] \in {"pCheck", "pFin"}]_vars

\* the delivery waits for 'drain' while the file holds bytes it has not read
C26_Witness ==
  \E s \in Slots :
    /\ pc[s] = "pDrain1" /\ res[s] = "open"
    /\ delivered[s] # <<>>
    /\ Len(HandleData(s)) > position[s]

\* C27: a request that meets a cache entry whose file is missing is not answered
\* with an error: neither when downloadToTmp finds the file missing at its
\* presence check, nor when the file is gone at the handler's stat after the
\* presence check succeeded
C27_MissingFileRefetched ==
  [][\A s \in Slots :
       /\ (pc[s] = "dStat" /\ key[s] \in CacheKeys /\ ~tmp[key[s]].ex /\ pc'[s] # "dStat")
            => status'[s] \notin {500, 502}
       /\ (pc[s] = "dtAccFail" /\ pc'[s] # "dtAccFail")
            => pc'[s] \in {"dtUnlink", "dtJoin"} /\ key[s] \notin CacheKeys']_vars

\* C28: once a progressive delivery has ended and its download has settled, no
\* .part file of its root hash is on disk
C28_NoPartLeft ==
  \A s \in Slots :
    (kind[s] = "GET" /\ pc[s] = "done" /\ dl[s].st \in {"ok", "err"}) => ~part[key[s]].ex

\* C29: the cache.delete in the catch of the presence check does not remove an
\* entry that is fresh and whose file is on disk, and issues no unlink of that file
C29_DesyncKeepsFreshEntry ==
  [][\A s \in Slots :
       (pc[s] = "dtAccFail" /\ pc'[s] # "dtAccFail" /\ CachedFresh(key[s]))
         => key[s] \in CacheKeys' /\ pend'[key[s]] = pend[key[s]]]_vars

\* C30: while a progressive delivery reads the .part file of its root hash, no
\* step of the gateway unlinks that file under it: its open handle keeps
\* referring to the file at the path
C30_PartNotRemovedUnderReader ==
  [][\A s \in Slots :
       (pc[s] \in ProgPcs /\ fd[s].st = "live") => fd'[s].st # "orphan"]_vars

====
